---- MODULE Spec2Model ----
(***************************************************************************)
(* ftree: a directory tree is read into TreeItem nodes (fs_utils.rs,       *)
(* main.rs) and rendered as rows of box-drawing glyphs (tree/mod.rs,       *)
(* main.rs).                                                               *)
(*                                                                         *)
(* A String is a sequence of characters, a character a one-token string.   *)
(* The box-drawing characters, which are not ASCII, are written as tokens: *)
(* "TEE" is U+251C, "ELL" is U+2514, "DASH" is U+2500, "VERT" is U+2502;   *)
(* "NL" is the line feed and "BSL" the backslash.                          *)
(*                                                                         *)
(* The heap of Rc<RefCell<TreeItem>> is the sequence nodes: a node's       *)
(* reference is its index, parent = 0 is None.  live is the state of the   *)
(* allocation: TRUE while a strong reference to it is left, FALSE once the *)
(* last one was dropped and the TreeItem released.                         *)
(***************************************************************************)
EXTENDS Integers, Sequences, FiniteSets, TLC

VARIABLES
    impl,          \* "tree": tree/mod.rs + fs_utils.rs;  "main": main.rs
    git,           \* traverse_fs's git argument
    pc,            \* where the program is
    nodes,         \* the heap of TreeItems; nodes[1] is the root
    stack,         \* the call stack of traverse_fs / read_dir_rec
    output,        \* what println! has written (<<>> before that)
    dirOf,         \* history: node |-> the directory record read for it
    matcherCalls,  \* history: the names handed to matcher.is_excluded
    faults         \* history: the failures (unwrap/expect/panic!) hit so far

vars == <<impl, git, pc, nodes, stack, output, dirOf, matcherCalls, faults>>

----------------------------------------------------------------------------
(* Bounds of the model *)

\* nodes of a tree (the root included)
MaxNodes == 4
\* entries of one directory listing
MaxEntries == 3

----------------------------------------------------------------------------
(* Strings *)

LVL_SUFFIX == <<"TEE", "DASH", "DASH">>
LVL_SUFFIX_LAST == <<"ELL", "DASH", "DASH">>
PARENT_IS_NOT_LAST == <<"VERT", " ", " ">>
PARENT_IS_LAST == <<" ", " ", " ">>

RECURSIVE join(_, _)
\* Vec<String>::join(sep)
join(rows, sep) ==
    IF Len(rows) = 0 THEN <<>>
    ELSE IF Len(rows) = 1 THEN rows[1]
    ELSE rows[1] \o sep \o join(Tail(rows), sep)

\* Vec::reverse
reverse(v) == [i \in 1..Len(v) |-> v[Len(v) + 1 - i]]

\* str::replace(from, to) for one-character patterns
replace(s, from, to) == [i \in 1..Len(s) |-> IF s[i] = from THEN to ELSE s[i]]

\* str::ends_with for a one-character pattern
ends_with(s, c) == Len(s) > 0 /\ s[Len(s)] = c

----------------------------------------------------------------------------
(* TreeItem *)

new_top_level(text, is_dir) ==
    [text |-> text, is_dir |-> is_dir, is_last |-> TRUE,
     children |-> <<>>, parent |-> 0, live |-> TRUE]

\* an attach that also takes the flag from the child that was last
new_clearing_siblings(ns, parent, text, is_dir, is_last) ==
    LET inst == [text |-> text, is_dir |-> is_dir, is_last |-> is_last,
                 children |-> <<>>, parent |-> parent, live |-> TRUE]
        r_inst == Len(ns) + 1
        kids == ns[parent].children
        cleared == IF kids = <<>> THEN ns
                   ELSE [ns EXCEPT ![kids[Len(kids)]].is_last = FALSE]
    IN  [Append(cleared, inst) EXCEPT ![parent].children = Append(@, r_inst)]

\* the heap after TreeItem::new; the node returned is Len(ns) + 1
new(ns, parent, text, is_dir, is_last) ==
    LET inst == [text |-> text, is_dir |-> is_dir, is_last |-> is_last,
                 children |-> <<>>, parent |-> parent, live |-> TRUE]
        r_inst == Len(ns) + 1
    IN  [Append(ns, inst) EXCEPT ![parent].children = Append(@, r_inst)]

\* a Weak that upgrades although its target was released
upgrade_of_released(ns, parent_weak) ==
    IF parent_weak \in 1..Len(ns) THEN parent_weak ELSE 0

\* Weak::upgrade: Some(the target) while a strong reference to it is left,
\* None (0) once it was released
upgrade(ns, parent_weak) ==
    IF parent_weak \in 1..Len(ns) /\ ns[parent_weak].live
    THEN parent_weak ELSE 0

\* a walk that gives the root a column too
parent_has_parent_always(ns, parent) == TRUE

\* the guard of the upward step: the parent has a parent itself
parent_has_parent(ns, parent) == ns[parent].parent # 0

RECURSIVE fill_symbols(_, _, _, _)
fill_symbols(ns, symbols, curr_item, sent_from_child) ==
    LET item == ns[curr_item]
        symbol == IF sent_from_child
                  THEN <<" ">> \o (IF item.is_last THEN PARENT_IS_LAST
                                                   ELSE PARENT_IS_NOT_LAST)
                  ELSE <<" ">> \o (IF item.is_last THEN LVL_SUFFIX_LAST
                                                   ELSE LVL_SUFFIX)
        pushed == Append(symbols, symbol)
    IN  IF item.parent # 0
        THEN LET parent_strong == upgrade(ns, item.parent)
             IN  IF parent_strong # 0 /\ parent_has_parent(ns, parent_strong)
                 THEN fill_symbols(ns, pushed, parent_strong, TRUE)
                 ELSE pushed
        ELSE pushed

\* impl Display for TreeItem (tree/mod.rs)
fmt(item) ==
    LET name == replace(item.text, "BSL", "/")
        trail == IF item.is_dir /\ ~ends_with(name, "/") THEN <<"/">> ELSE <<>>
    IN  name \o trail

\* the prefix of to_row_str (tree/mod.rs)
row_prefix(ns, self, prefix_self) ==
    IF prefix_self
    THEN join(reverse(fill_symbols(ns, <<>>, self, FALSE)), <<>>) \o <<" ">>
    ELSE <<>>

\* the children taken last first
children_iter_reversed(item) == reverse(item.children)

\* the order in which to_row_str takes the children
children_iter(item) == item.children

RECURSIVE child_rows(_, _, _)
RECURSIVE to_row_str(_, _, _)
\* rows.push(child.to_row_str(true)) for the children from index k on
child_rows(ns, kids, k) ==
    IF k > Len(kids) THEN <<>>
    ELSE <<to_row_str(ns, kids[k], TRUE)>> \o child_rows(ns, kids, k + 1)

\* TreeItem::to_row_str (tree/mod.rs)
to_row_str(ns, self, prefix_self) ==
    LET rows == <<row_prefix(ns, self, prefix_self) \o fmt(ns[self])>>
                \o child_rows(ns, children_iter(ns[self]), 1)
    IN  join(rows, <<"NL">>)

\* to_row_str_rec (main.rs): fill_symbols under its former name
to_row_str_rec(ns, symbols, curr_item, sent_from_child) ==
    fill_symbols(ns, symbols, curr_item, sent_from_child)

\* the prefix of to_row_str (main.rs)
main_row_prefix(ns, self, prefix_self) ==
    IF prefix_self
    THEN join(reverse(to_row_str_rec(ns, <<>>, self, FALSE)), <<>>) \o <<" ">>
    ELSE <<>>

RECURSIVE main_child_rows(_, _, _)
RECURSIVE main_to_row_str(_, _, _)
main_child_rows(ns, kids, k) ==
    IF k > Len(kids) THEN <<>>
    ELSE <<main_to_row_str(ns, kids[k], TRUE)>> \o main_child_rows(ns, kids, k + 1)

\* TreeItem::to_row_str (main.rs): the row is text, then "/" for a directory
main_to_row_str(ns, self, prefix_self) ==
    LET item == ns[self]
        rows == <<main_row_prefix(ns, self, prefix_self) \o item.text
                  \o (IF item.is_dir THEN <<"/">> ELSE <<>>)>>
                \o main_child_rows(ns, item.children, 1)
    IN  join(rows, <<"NL">>)

\* root.borrow().to_row_str(false) of the crate that is built
render(ns) ==
    IF impl = "tree" THEN to_row_str(ns, 1, FALSE) ELSE main_to_row_str(ns, 1, FALSE)

----------------------------------------------------------------------------
(* The file system, as the program reads it: once, depth first *)

DotGit == <<".", "g", "i", "t">>
GitIgnore == <<".", "g", "i", "t", "i", "g", "n", "o", "r", "e">>

\* the file names a directory may hold
EntryNames == {DotGit, GitIgnore, <<"a">>, <<"b">>}

\* the path given on the command line
RootPath == <<".">>

DirEntry == [name : EntryNames, is_dir : BOOLEAN]

names_of(entries) == {entries[k].name : k \in 1..Len(entries)}

\* the listings of at most n entries: no name twice
Listings(n) ==
    UNION {{l \in [1..k -> DirEntry] :
              \A a, b \in 1..k : a # b => l[a].name # l[b].name} : k \in 0..n}

\* path/.gitignore: "absent" (no such file), "unread" (a file the walk does
\* not open, git being off), "malformed", or "rules", with the names of this
\* directory that the rules exclude
NoGitIgnore == [state |-> "absent", excluded |-> {}]

GitIgnoreFiles(g, l) ==
    IF GitIgnore \notin names_of(l) THEN {NoGitIgnore}
    ELSE IF ~g THEN {[state |-> "unread", excluded |-> {}]}
    ELSE {[state |-> "malformed", excluded |-> {}]}
         \cup {[state |-> "rules", excluded |-> S] : S \in SUBSET names_of(l)}

\* what read_dir(path) and path/.gitignore hold
DirRecords(g, n) ==
    {[read |-> r, entries |-> <<>>, gitignore |-> NoGitIgnore] :
        r \in {"err", "collect_err"}}
    \cup UNION {
        {[read |-> "ok", entries |-> l, gitignore |-> gi] :
            gi \in GitIgnoreFiles(g, l)}
        : l \in Listings(n)}

\* what can go wrong with one entry
EntryFaults == {"none", "metadata", "file_name", "is_excluded"}

----------------------------------------------------------------------------
(* traverse_fs (fs_utils.rs) and read_dir_rec (main.rs) *)

\* Path::new(path).join(".gitignore").exists(), then gitignore::File::new
None == [state |-> "None", excluded |-> {}]

ignore_matcher(g, dir) ==
    IF g THEN (IF dir.gitignore.state = "absent" THEN None ELSE dir.gitignore)
    ELSE None

\* matcher.is_excluded(&full_path) is called for this entry
consults_matcher(g, matcher, file_name_str) ==
    g /\ file_name_str # DotGit /\ matcher # None

\* a loop body without the test for .git
skip_entry_without_dotgit(g, matcher, file_name_str) ==
    g /\ matcher # None /\ file_name_str \in matcher.excluded

\* a loop body that does not ask the matcher
skip_entry_without_matcher(g, matcher, file_name_str) ==
    g /\ file_name_str = DotGit

\* the two `continue`s of the loop body
skip_entry(g, matcher, file_name_str) ==
    g /\ (file_name_str = DotGit
          \/ (matcher # None /\ file_name_str \in matcher.excluded))

\* the flag one position late
is_last_raw_off_by_one(i, num_entries) == i = num_entries

\* read_dir_rec: let is_last = i == num_entries - 1  (i counts from 0)
is_last_raw(i, num_entries) == i = num_entries - 1

\* traverse_fs hands TreeItem::new no is_last: the flag of the attach it
\* calls is the position among the entries kept (entry k, counted from 1)
is_last_kept(g, matcher, entries, k) ==
    \A j \in (k + 1)..Len(entries) : skip_entry(g, matcher, entries[j].name)

\* format!("{}/{}", path, file_name_str)
new_path(path, file_name_str) == path \o <<"/">> \o file_name_str

\* a loop body that attaches to the node made last
attach_to_newest(frame) == Len(nodes)

\* the node the loop body attaches to: item
attach_parent(frame) == frame.item

\* a walk that stays in the first directory
recurses_never(is_dir) == FALSE

\* if is_dir { traverse_fs(&new_path, &child_node, git) }
recurses(is_dir) == is_dir

\* a failure that is passed over: the walk goes on
failure_ignored(stk) == [pc |-> "build", stack |-> stk]

\* unwrap, expect and panic!: the process ends
failure(stk) == [pc |-> "panicked", stack |-> stk]

Top == stack[Len(stack)]

\* entries listed and not yet taken by the loops on the stack
pending == LET RECURSIVE sum(_)
               sum(k) == IF k = 0 THEN 0
                         ELSE sum(k - 1)
                              + (IF stack[k].phase = "loop"
                                 THEN Len(stack[k].entries) - stack[k].i ELSE 0)
           IN  sum(Len(stack))

budget == LET left == MaxNodes - Len(nodes) - pending
          IN  IF left < MaxEntries THEN left ELSE MaxEntries

\* main: let root = TreeItem::new_top_level(path.clone(), true), and the call
InitBuild ==
    /\ impl \in {"tree", "main"}
    /\ git \in (IF impl = "tree" THEN BOOLEAN ELSE {FALSE})
    /\ pc = "build"
    /\ nodes = <<new_top_level(RootPath, TRUE)>>
    /\ stack = <<[item |-> 1, path |-> RootPath, phase |-> "call",
                  entries |-> <<>>, matcher |-> None, i |-> 0]>>
    /\ output = <<>>
    /\ dirOf = <<>>
    /\ matcherCalls = <<>>
    /\ faults = <<>>

\* the body of traverse_fs / read_dir_rec up to the loop
Enter ==
    /\ pc = "build" /\ stack # <<>> /\ Top.phase = "call"
    /\ \E dir \in DirRecords(git, budget) :
        LET matcher == ignore_matcher(git, dir)
            fault == IF matcher.state = "malformed" THEN "gitignore"
                     ELSE IF dir.read = "err" THEN "read_dir"
                     ELSE IF dir.read = "collect_err" THEN "collect"
                     ELSE "none"
            listed == [stack EXCEPT ![Len(stack)] =
                         [@ EXCEPT !.phase = "loop", !.entries = dir.entries,
                                   !.matcher = matcher]]
        IN  /\ dirOf' = (Top.item :> [path |-> Top.path, dir |-> dir]) @@ dirOf
            /\ IF fault # "none"
               THEN /\ faults' = Append(faults, fault)
                    /\ pc' = failure(stack).pc
                    /\ stack' = failure(stack).stack
               ELSE /\ stack' = listed
                    /\ UNCHANGED <<pc, faults>>
    /\ UNCHANGED <<impl, git, nodes, output, matcherCalls>>

\* one turn of the loop over dir_entries
Iterate ==
    /\ pc = "build" /\ stack # <<>> /\ Top.phase = "loop"
    /\ Top.i < Len(Top.entries)
    /\ \E fault \in EntryFaults :
        LET frame == Top
            k == frame.i + 1
            is_dir == frame.entries[k].is_dir
            file_name_str == frame.entries[k].name
            consulted == consults_matcher(git, frame.matcher, file_name_str)
            advanced == [stack EXCEPT ![Len(stack)].i = k]
            is_last == IF impl = "main"
                       THEN is_last_raw(frame.i, Len(frame.entries))
                       ELSE is_last_kept(git, frame.matcher, frame.entries, k)
            child_node == Len(nodes) + 1
            callee == [item |-> child_node,
                       path |-> new_path(frame.path, file_name_str),
                       phase |-> "call", entries |-> <<>>,
                       matcher |-> None, i |-> 0]
        IN  /\ fault = "is_excluded" => consulted
            /\ matcherCalls' =
                 IF fault \notin {"metadata", "file_name"} /\ consulted
                 THEN Append(matcherCalls,
                             [path |-> frame.path, name |-> file_name_str])
                 ELSE matcherCalls
            /\ IF fault # "none"
               THEN /\ faults' = Append(faults, fault)
                    /\ pc' = failure(stack).pc
                    /\ stack' = failure(stack).stack
                    /\ UNCHANGED nodes
               ELSE IF skip_entry(git, frame.matcher, file_name_str)
               THEN /\ stack' = advanced
                    /\ UNCHANGED <<pc, nodes, faults>>
               ELSE /\ nodes' = new(nodes, attach_parent(frame), file_name_str,
                                    is_dir, is_last)
                    /\ stack' = IF recurses(is_dir)
                                THEN Append(advanced, callee) ELSE advanced
                    /\ UNCHANGED <<pc, faults>>
    /\ UNCHANGED <<impl, git, output, dirOf>>

\* the loop is over: the call returns
Return ==
    /\ pc = "build" /\ stack # <<>> /\ Top.phase = "loop"
    /\ Top.i = Len(Top.entries)
    /\ stack' = SubSeq(stack, 1, Len(stack) - 1)
    /\ UNCHANGED <<impl, git, pc, nodes, output, dirOf, matcherCalls, faults>>

\* main: println!("{}", root.borrow().to_row_str(false))
Println ==
    /\ pc = "build" /\ stack = <<>>
    /\ output' = render(nodes)
    /\ pc' = "done"
    /\ UNCHANGED <<impl, git, nodes, stack, dirOf, matcherCalls, faults>>

Next == Enter \/ Iterate \/ Return \/ Println

Spec == InitBuild /\ [][Next]_vars

----------------------------------------------------------------------------
(* The tree on its own, as the tests of tree/mod.rs and main.rs use it:    *)
(* a root, children attached by TreeItem::new with any arguments, and one  *)
(* to_row_str(false) on the root.                                          *)

\* the text of the root (a directory, as main and the tests make it), and
\* the texts of the children
RootTexts == {<<".", "/">>}
ChildTexts == {<<"a">>, <<"d", "BSL">>}

InitTree ==
    /\ impl \in {"tree", "main"}
    /\ git = FALSE
    /\ pc = "tree"
    /\ nodes \in {<<new_top_level(t, TRUE)>> : t \in RootTexts}
    /\ stack = <<>>
    /\ output = <<>>
    /\ dirOf = <<>>
    /\ matcherCalls = <<>>
    /\ faults = <<>>

\* TreeItem::new(&parent, text, is_dir, is_last)
AttachChild ==
    /\ pc = "tree" /\ Len(nodes) < MaxNodes
    /\ \E parent \in 1..Len(nodes), text \in ChildTexts,
          is_dir \in BOOLEAN, is_last \in BOOLEAN :
        nodes' = new(nodes, parent, text, is_dir, is_last)
    /\ UNCHANGED <<impl, git, pc, stack, output, dirOf, matcherCalls, faults>>

\* root.borrow().to_row_str(false)
RenderTree ==
    /\ pc = "tree"
    /\ output' = render(nodes)
    /\ pc' = "rendered"
    /\ UNCHANGED <<impl, git, nodes, stack, dirOf, matcherCalls, faults>>

NextTree == AttachChild \/ RenderTree

SpecTree == InitTree /\ [][NextTree]_vars

\* the program and the tree on its own
SpecAll == (InitBuild \/ InitTree) /\ [][Next \/ NextTree]_vars

----------------------------------------------------------------------------
(* The tree in the hands of a caller that drops handles: new_top_level and *)
(* new return an Rc, a node's child list holds another, the parent link is *)
(* a Weak.  A node is released when the last Rc to it is dropped.          *)

\* the texts of the nodes
HeldTexts == {<<"a">>}

\* the nodes not released
live_nodes(ns) == {n \in 1..Len(ns) : ns[n].live}

\* parent.children holds an Rc to n for as long as the parent is there
owned(ns, n) == ns[n].parent # 0 /\ ns[ns[n].parent].live

\* the heap after the last Rc to each node of gone was dropped
release(ns, gone) ==
    [i \in 1..Len(ns) |-> IF i \in gone THEN [ns[i] EXCEPT !.live = FALSE]
                                         ELSE ns[i]]

\* self.borrow().to_row_str(prefix_self) of the crate that is built
render_item(ns, self, prefix_self) ==
    IF impl = "tree" THEN to_row_str(ns, self, prefix_self)
    ELSE main_to_row_str(ns, self, prefix_self)

InitHeld ==
    /\ impl \in {"tree", "main"}
    /\ git = FALSE
    /\ pc = "held"
    /\ nodes \in {<<new_top_level(t, TRUE)>> : t \in HeldTexts}
    /\ stack = <<>>
    /\ output = <<>>
    /\ dirOf = <<>>
    /\ matcherCalls = <<>>
    /\ faults = <<>>

\* TreeItem::new(&parent, text, is_dir, is_last) on a handle the caller has
AttachHeld ==
    /\ pc = "held" /\ Len(nodes) < MaxNodes
    /\ \E parent \in live_nodes(nodes), text \in HeldTexts,
          is_dir \in BOOLEAN, is_last \in BOOLEAN :
        nodes' = new(nodes, parent, text, is_dir, is_last)
    /\ UNCHANGED <<impl, git, pc, stack, output, dirOf, matcherCalls, faults>>

\* drop(n) of a node that no child list holds: n is released, and so is
\* every node below it down to the ones the caller still has a handle of
DropHandle ==
    /\ pc = "held"
    /\ \E n \in live_nodes(nodes) :
        /\ ~owned(nodes, n)
        /\ \E gone \in SUBSET live_nodes(nodes) :
            /\ n \in gone
            /\ \A d \in gone \ {n} : nodes[d].parent \in gone
            /\ nodes' = release(nodes, gone)
    /\ UNCHANGED <<impl, git, pc, stack, output, dirOf, matcherCalls, faults>>

\* self.borrow().to_row_str(prefix_self) on a handle the caller has
RenderItem ==
    /\ pc = "held"
    /\ \E self \in live_nodes(nodes), prefix_self \in BOOLEAN :
        /\ output' = render_item(nodes, self, prefix_self)
        /\ stack' = <<[self |-> self, prefix_self |-> prefix_self]>>
    /\ pc' = "item_rendered"
    /\ UNCHANGED <<impl, git, nodes, dirOf, matcherCalls, faults>>

NextHeld == AttachHeld \/ DropHandle \/ RenderItem

SpecHeld == InitHeld /\ [][NextHeld]_vars

----------------------------------------------------------------------------
(* What the properties are stated with *)

\* the nodes of the tree
Nodes == 1..Len(nodes)

RECURSIVE PathIn(_, _)
\* in the heap ns: the root, ..., the parent of n, n
PathIn(ns, n) ==
    IF ns[n].parent = 0 THEN <<n>>
    ELSE Append(PathIn(ns, ns[n].parent), n)

PathFromRoot(n) == PathIn(nodes, n)

Depth(n) == Len(PathFromRoot(n)) - 1

\* in the heap ns, n is t or below t
InSubtreeIn(ns, n, t) == \E k \in 1..Len(PathIn(ns, n)) : PathIn(ns, n)[k] = t

InSubtree(n, t) == InSubtreeIn(nodes, n, t)

IsPrefix(s, t) == Len(s) <= Len(t) /\ SubSeq(t, 1, Len(s)) = s

RECURSIVE PreOrderOf(_, _)
RECURSIVE PreOrder(_)
PreOrderOf(kids, k) ==
    IF k > Len(kids) THEN <<>> ELSE PreOrder(kids[k]) \o PreOrderOf(kids, k + 1)

\* n, then the subtrees of its children in insertion order
PreOrder(n) == <<n>> \o PreOrderOf(nodes[n].children, 1)

RECURSIVE Continuations(_, _)
\* the columns of the ancestors path[k..], none for the root
Continuations(path, k) ==
    IF k >= Len(path) THEN <<>>
    ELSE <<" ">> \o (IF nodes[path[k]].is_last THEN <<" ", " ", " ">>
                                               ELSE <<"VERT", " ", " ">>)
         \o Continuations(path, k + 1)

\* the prefix of n's row, from the root down
RefPrefix(n) ==
    Continuations(PathFromRoot(n), 2)
    \o <<" ">> \o (IF nodes[n].is_last THEN <<"ELL", "DASH", "DASH">>
                                        ELSE <<"TEE", "DASH", "DASH">>)
    \o <<" ">>

RECURSIVE SplitFrom(_, _, _)
SplitFrom(s, k, row) ==
    IF k > Len(s) THEN <<row>>
    ELSE IF s[k] = "NL" THEN <<row>> \o SplitFrom(s, k + 1, <<>>)
    ELSE SplitFrom(s, k + 1, Append(row, s[k]))

\* the rows of a text: what lies between its line feeds
Rows(s) == SplitFrom(s, 1, <<>>)

\* the name as the crate that is built writes it
WrittenName(n) ==
    IF impl = "tree" THEN fmt(nodes[n])
    ELSE nodes[n].text \o (IF nodes[n].is_dir THEN <<"/">> ELSE <<>>)

\* the text was written
Rendered == pc \in {"rendered", "done"}

\* C3: the prefix that to_row_str computes for every node but the root, and
\* the prefix of its row in the text written, is the top-down one: a column
\* for every ancestor below the root (bar or blank), the node's own branch
\* glyph, a space; 4 * depth + 1 characters, the root giving no column.
C3_PrefixIsTopDown ==
    /\ \A n \in Nodes \ {1} :
        /\ row_prefix(nodes, n, TRUE) = RefPrefix(n)
        /\ main_row_prefix(nodes, n, TRUE) = RefPrefix(n)
        /\ Len(RefPrefix(n)) = 4 * Depth(n) + 1
    /\ Rendered =>
        LET pre == PreOrder(1)
            rows == Rows(output)
        IN  \A k \in 2..Len(pre) :
               /\ k <= Len(rows)
               /\ Len(rows[k]) >= Len(RefPrefix(pre[k]))
               /\ SubSeq(rows[k], 1, Len(RefPrefix(pre[k]))) = RefPrefix(pre[k])

\* a row at depth 3 was written below an ancestor that is not the last sibling
C3_Witness ==
    /\ pc = "rendered"
    /\ \E n \in Nodes :
        /\ Depth(n) = 3
        /\ ~nodes[nodes[n].parent].is_last
        /\ nodes[nodes[nodes[n].parent].parent].is_last

\* C4: to_row_str(false) on the root writes one row per node, in pre-order
\* with the children in insertion order, joined by single line feeds and
\* with none at the end; the root's row is its name alone, every other row
\* is its prefix and its name; a root without children gives one row.
C4_OneRowPerNodeInPreOrder ==
    Rendered =>
        LET pre == PreOrder(1)
            rows == Rows(output)
        IN  /\ Len(pre) = Len(nodes)
            /\ Len(rows) = Len(nodes)
            /\ rows[1] = WrittenName(1)
            /\ \A k \in 2..Len(rows) :
                  rows[k] = RefPrefix(pre[k]) \o WrittenName(pre[k])
            /\ Len(output) > 0 /\ output[Len(output)] # "NL"
            /\ Cardinality({k \in 1..Len(output) : output[k] = "NL"})
                 = Len(nodes) - 1
            /\ nodes[1].children = <<>> => output = WrittenName(1)

\* a tree was written in which pre-order differs from creation order
C4_Witness ==
    /\ pc = "rendered"
    /\ Len(nodes) = 4
    /\ PreOrder(1) # <<1, 2, 3, 4>>

\* C4: the directory "./" without children is written as the one row "./"
C4_ChildlessWitness ==
    /\ pc = "rendered" /\ impl = "tree"
    /\ Len(nodes) = 1 /\ nodes[1].is_dir
    /\ output = <<".", "/">>

\* the display name as stated: backslashes become slashes, and a directory
\* whose name does not end in a slash by then gets one
StatedName(item) ==
    LET t == item.text
        norm == [i \in 1..Len(t) |-> IF t[i] = "BSL" THEN "/" ELSE t[i]]
    IN  IF item.is_dir /\ (Len(t) = 0 \/ norm[Len(t)] # "/")
        THEN Append(norm, "/") ELSE norm

\* the row of the k-th node in pre-order, its prefix taken off
NamePart(k) ==
    LET row == Rows(output)[k]
        skip == IF k = 1 THEN 0 ELSE Len(RefPrefix(PreOrder(1)[k]))
    IN  SubSeq(row, skip + 1, Len(row))

\* C8: the name written for every node is its text with every backslash
\* replaced by a slash, followed by a slash exactly if the node is a
\* directory and that does not already end in one: no separator is added
\* to a file, none is doubled.
C8_DisplayNameNormalized ==
    Rendered =>
        \A k \in 1..Len(nodes) : NamePart(k) = StatedName(nodes[PreOrder(1)[k]])

\* C8, of tree/mod.rs alone: its Display, and the rows its to_row_str writes
C8_HoldsOfTreeModule ==
    /\ \A n \in Nodes : fmt(nodes[n]) = StatedName(nodes[n])
    /\ impl = "tree" => C8_DisplayNameNormalized

\* C10: TreeItem::new on parent P adds one node, at the end of P.children,
\* with parent P and no children, and changes nothing else: every node that
\* was there keeps its text, flags and parent, and its children in their
\* order; and while a call of the builder on target T is on the stack, the
\* step changes no node outside the subtree of T and adds none outside it.
C10_AttachChangesNothingElse ==
    [][ /\ Len(nodes') >= Len(nodes)
        /\ \A n \in 1..Len(nodes) :
             /\ nodes'[n].text = nodes[n].text
             /\ nodes'[n].is_dir = nodes[n].is_dir
             /\ nodes'[n].is_last = nodes[n].is_last
             /\ nodes'[n].parent = nodes[n].parent
             /\ IsPrefix(nodes[n].children, nodes'[n].children)
        /\ Len(nodes') > Len(nodes) =>
             LET c == Len(nodes')
                 p == nodes'[c].parent
             IN  /\ c = Len(nodes) + 1
                 /\ p \in 1..Len(nodes)
                 /\ nodes'[c].children = <<>>
                 /\ nodes'[p].children = Append(nodes[p].children, c)
                 /\ \A n \in 1..Len(nodes) \ {p} : nodes'[n] = nodes[n]
        /\ \A f \in 1..Len(stack) :
             /\ \A n \in 1..Len(nodes) :
                  ~InSubtreeIn(nodes, n, stack[f].item) => nodes'[n] = nodes[n]
             /\ \A n \in (Len(nodes) + 1)..Len(nodes') :
                  InSubtreeIn(nodes', n, stack[f].item)
      ]_vars

\* a nested call has attached a child while the root has a child outside
\* the subtree of the call's target
C10_Witness ==
    /\ pc = "build" /\ Len(stack) = 2
    /\ nodes[stack[2].item].children # <<>>
    /\ \E n \in Nodes : nodes[n].parent = 1 /\ ~InSubtree(n, stack[2].item)

\* the builder has returned to main (and main may have written the text)
BuildComplete == pc \in {"build", "done"} /\ stack = <<>>

\* the directories the builder was called on
Visited == DOMAIN dirOf

\* the entry is left out: .git, or excluded by the rules of its directory
Skipped(d, e) ==
    git /\ (e.name = DotGit
            \/ (d.gitignore.state = "rules" /\ e.name \in d.gitignore.excluded))

\* the entries of a directory that are not left out, in listing order
Kept(d) == SelectSeq(d.entries, LAMBDA e : ~Skipped(d, e))

\* the last component of path is name
IsEntryPath(path, name) ==
    LET tail == <<"/">> \o name
    IN  /\ Len(path) > Len(tail)
        /\ SubSeq(path, Len(path) - Len(tail) + 1, Len(path)) = tail

C2_ChildrenAreKeptEntries ==
    BuildComplete =>
        /\ 1 \in Visited /\ Visited \subseteq Nodes
        /\ \A n \in Visited :
            LET d == dirOf[n].dir
                kept == Kept(d)
                kids == nodes[n].children
            IN  /\ d.read = "ok"
                /\ Len(kids) = Len(kept)
                /\ ~git => Len(kids) = Len(d.entries)
                /\ \A k \in 1..Len(kids) :
                     /\ nodes[kids[k]].text = kept[k].name
                     /\ nodes[kids[k]].is_dir = kept[k].is_dir
                     /\ nodes[kids[k]].parent = n
                     /\ kept[k].is_dir <=> kids[k] \in Visited
                     /\ kept[k].is_dir =>
                          dirOf[kids[k]].path
                            = dirOf[n].path \o <<"/">> \o kept[k].name
        /\ \A n \in Nodes : nodes[n].children # <<>> => n \in Visited

\* the root has two children, and a directory below it has a child
C2_Witness ==
    /\ BuildComplete
    /\ Len(nodes[1].children) = 2
    /\ \E n \in Visited \ {1} : nodes[n].children # <<>>

\* C5: with git on, at every depth, an entry named .git is skipped before
\* the matcher is asked: no node is named .git, the matcher is never handed
\* .git, and the builder is never called on a path that ends in /.git,
\* whatever .gitignore holds.
C5_DotGitAlwaysSkipped ==
    git =>
        /\ \A n \in Nodes : nodes[n].text # DotGit
        /\ \A k \in 1..Len(matcherCalls) : matcherCalls[k].name # DotGit
        /\ \A n \in Visited : ~IsEntryPath(dirOf[n].path, DotGit)

\* below the root, a directory with rules that do not exclude .git and an
\* entry .git that is a directory was built, and the matcher was asked
C5_Witness ==
    /\ BuildComplete /\ git /\ matcherCalls # <<>>
    /\ \E n \in Visited \ {1} :
        LET d == dirOf[n].dir
        IN  /\ d.gitignore.state = "rules"
            /\ DotGit \notin d.gitignore.excluded
            /\ \E k \in 1..Len(d.entries) :
                 d.entries[k] = [name |-> DotGit, is_dir |-> TRUE]

\* C6: with git on and a .gitignore in the directory listed, an entry that
\* the matcher excludes is skipped: at no time does the directory's node
\* have a child of that name, nor is the builder called on it; when the
\* builder has returned the children are the entries neither excluded nor
\* named .git (.gitignore itself among them unless excluded), and the text
\* written has a row per node and no other.
C6_ExcludedEntriesAbsent ==
    git =>
        /\ \A n \in Visited :
            LET d == dirOf[n].dir
                kids == nodes[n].children
                stay == SelectSeq(d.entries,
                                  LAMBDA e : /\ e.name \notin d.gitignore.excluded
                                             /\ e.name # DotGit)
            IN  d.gitignore.state = "rules" =>
                  /\ \A k \in 1..Len(kids) :
                       nodes[kids[k]].text \notin d.gitignore.excluded
                  /\ \A m \in Visited, x \in d.gitignore.excluded :
                       dirOf[m].path # dirOf[n].path \o <<"/">> \o x
                  /\ BuildComplete =>
                       /\ Len(kids) = Len(stay)
                       /\ \A k \in 1..Len(kids) :
                            nodes[kids[k]].text = stay[k].name
        /\ pc = "done" => Len(Rows(output)) = Len(nodes)

\* a directory whose rules exclude a subdirectory and not .gitignore, with
\* another entry kept, was built and written
C6_Witness ==
    /\ pc = "done" /\ git
    /\ \E n \in Visited :
        LET d == dirOf[n].dir
        IN  /\ d.gitignore.state = "rules"
            /\ GitIgnore \notin d.gitignore.excluded
            /\ Len(nodes[n].children) = 2
            /\ \E k \in 1..Len(d.entries) :
                 /\ d.entries[k].is_dir
                 /\ d.entries[k].name \in d.gitignore.excluded

\* C7: a failure of the builder at any depth (read_dir or its collect, the
\* metadata or the name of an entry, a malformed .gitignore, the matcher)
\* ends the run there: the process has panicked, nothing is written, and no
\* step follows: no entry of any directory is taken, no node is attached.
C7_FailureEndsTheRun ==
    /\ [](faults # <<>> => pc = "panicked" /\ output = <<>>)
    /\ [][faults # <<>> => UNCHANGED vars]_vars

\* a nested call has failed with nodes attached and an entry of the first
\* directory not yet taken
C7_Witness ==
    /\ pc = "panicked" /\ faults # <<>>
    /\ Len(stack) >= 2
    /\ stack[1].i < Len(stack[1].entries)
    /\ Len(nodes) >= 2

\* C9: during the build and after it, a node that is not a directory has
\* no children.
C9_FilesHaveNoChildren ==
    \A n \in Nodes : ~nodes[n].is_dir => nodes[n].children = <<>>

\* a file was attached before a directory whose node has a child
C9_Witness ==
    /\ pc = "build"
    /\ \E f, n \in Nodes \ {1} :
        /\ f < n /\ ~nodes[f].is_dir
        /\ nodes[n].is_dir /\ nodes[n].children # <<>>

----------------------------------------------------------------------------
(* The released parent *)

\* n's parent link is there and its target was released
ParentReleased(n) == nodes[n].parent # 0 /\ ~nodes[nodes[n].parent].live

\* n has no parent to go up to: no link, or a link to a released node
TopOfWalk(n) == nodes[n].parent = 0 \/ ParentReleased(n)

RECURSIVE ReachableChain(_)
\* the nodes from the highest one that n reaches through its links down to n
ReachableChain(n) ==
    IF TopOfWalk(n) THEN <<n>>
    ELSE Append(ReachableChain(nodes[n].parent), n)

\* the prefix of n's row when the walk stops at the highest node it reaches:
\* a column for every node of the chain above n (none for a node without a
\* parent link), n's branch glyph, a space
StoppedPrefix(n) ==
    LET chain == ReachableChain(n)
        from == IF nodes[chain[1]].parent = 0 THEN 2 ELSE 1
    IN  Continuations(chain, from)
        \o <<" ">> \o (IF nodes[n].is_last THEN <<"ELL", "DASH", "DASH">>
                                            ELSE <<"TEE", "DASH", "DASH">>)
        \o <<" ">>

\* the heap in which n has no parent link
WithoutLink(n) == [nodes EXCEPT ![n].parent = 0]

\* to_row_str has returned to a caller that dropped handles
ItemRendered == pc = "item_rendered"

\* C11: at a node whose parent link points to a released node the upward
\* walk does what it does at a node without a parent link: it pushes the
\* node's symbol and goes no further.  A render of a node that is there
\* completes without a failure and returns one row for every node of the
\* subtree, the rendered node included; a row's prefix has no column for
\* anything above the node at which the walk stopped.
C11_ReleasedParentIsNoParent ==
    /\ \A n \in live_nodes(nodes), sent_from_child \in BOOLEAN :
         ParentReleased(n) =>
            /\ Len(fill_symbols(nodes, <<>>, n, sent_from_child)) = 1
            /\ fill_symbols(nodes, <<>>, n, sent_from_child)
                 = fill_symbols(WithoutLink(n), <<>>, n, sent_from_child)
            /\ to_row_str_rec(nodes, <<>>, n, sent_from_child)
                 = to_row_str_rec(WithoutLink(n), <<>>, n, sent_from_child)
    /\ pc \in {"held", "item_rendered"} => faults = <<>>
    /\ ItemRendered =>
        LET self == stack[1].self
            pre == PreOrder(self)
            rows == Rows(output)
        IN  /\ Len(rows) = Len(pre)
            /\ rows[1] = (IF stack[1].prefix_self THEN StoppedPrefix(self)
                                                  ELSE <<>>)
                         \o WrittenName(self)
            /\ \A k \in 2..Len(pre) :
                 rows[k] = StoppedPrefix(pre[k]) \o WrittenName(pre[k])

\* a node was rendered with its own prefix after its parent, which is not
\* the root, was released; the node has a child, whose walk stops at it too
C11_Witness ==
    /\ ItemRendered
    /\ stack[1].prefix_self
    /\ LET self == stack[1].self
       IN  /\ ParentReleased(self)
           /\ nodes[nodes[self].parent].parent # 0
           /\ nodes[self].children # <<>>
           /\ Len(Rows(output)) = 2

====
